---------------------------- MODULE Spec2Model ----------------------------
(***************************************************************************)
(* Greenhouse -> Snowflake pipeline: the incremental insert stage          *)
(* (Greenhouse_Fetch.run) and the three annotation stages that merge       *)
(* their results back into the one persisted table.                        *)
(*                                                                         *)
(* Conventions of the model                                                *)
(*   - the clock counts whole days; a timestamp string of the upstream API *)
(*     is an ISO-8601 string of midnight of a day of the clock;            *)
(*   - a nullable column holds a set of at most one value: NULL is {} and  *)
(*     a value v is {v};                                                   *)
(*   - a text (title, description) is a sequence of words, a regex search  *)
(*     of a word list is a search for one of its phrases as consecutive    *)
(*     words, case folded;                                                 *)
(*   - Python's None and "" are both the empty string where the code only  *)
(*     tests truthiness.                                                   *)
(***************************************************************************)
EXTENDS Integers, Sequences, FiniteSets, TLC

VARIABLES
    now,      \* the wall clock, in days (CURRENT_TIMESTAMP / datetime.now)
    table,    \* the persisted table: the sequence of its rows, in append order
    last,     \* what the most recent stage run read, computed and returned
    loop      \* the event loop of a stage while its external calls are running

vars == <<now, table, last, loop>>

---------------------------------------------------------------------------
(* Bounds of the model *)

MaxTime == 3

MaxRows == 3

\* The most external calls one stage run has to make
MaxCalls == 27

(* Program constants *)

DEFAULT_LOOKBACK_DAYS == 1

INDEX_WINDOW_DAYS == 2

FETCH_BATCH_SIZE == 400

FETCH_CONCURRENCY == 25

BATCH_SIZE == 20

CONCURRENCY_LIMIT == 5

---------------------------------------------------------------------------
(* Values *)

NULL == {}

V(x) == {x}

Min(a, b) == IF a <= b THEN a ELSE b

RECURSIVE JoinWords(_)
JoinWords(ws) ==
    IF ws = <<>> THEN ""
    ELSE IF Len(ws) = 1 THEN ws[1]
    ELSE ws[1] \o " " \o JoinWords(Tail(ws))

(* Timestamp strings of the upstream API, for day d of the clock *)

ClockDays == 0..8

DayDigit == <<"1", "2", "3", "4", "5", "6", "7", "8", "9">>

IsoZTable == [d \in ClockDays |-> "2024-01-0" \o DayDigit[d + 1] \o "T00:00:00Z"]

IsoNaiveTable == [d \in ClockDays |-> "2024-01-0" \o DayDigit[d + 1] \o "T00:00:00"]

IsoZ(d) == IsoZTable[d]

IsoNaive(d) == IsoNaiveTable[d]

---------------------------------------------------------------------------
(* Greenhouse_Fetch.py *)

\* datetime.fromisoformat(s.replace("Z", "+00:00")): a string with a UTC
\* designator gives an aware datetime, one without an offset a naive
\* datetime, anything else raises ValueError.
IsoParsed ==
    [s \in {IsoZTable[d] : d \in ClockDays} \cup {IsoNaiveTable[d] : d \in ClockDays} |->
        IF \E d \in ClockDays : s = IsoZTable[d]
        THEN [ok |-> TRUE, tz |-> "aware", day |-> CHOOSE d \in ClockDays : s = IsoZTable[d]]
        ELSE [ok |-> TRUE, tz |-> "naive", day |-> CHOOSE d \in ClockDays : s = IsoNaiveTable[d]]]

fromisoformat(s) ==
    IF s \in DOMAIN IsoParsed THEN IsoParsed[s]
    ELSE [ok |-> FALSE, tz |-> "none", day |-> 0]

\* None is [tz |-> "none"].
parse_iso_dt(s) ==
    IF s = "" THEN [tz |-> "none", day |-> 0]
    ELSE LET r == fromisoformat(s)
         IN IF r.ok THEN [tz |-> r.tz, day |-> r.day]
            ELSE [tz |-> "none", day |-> 0]

\* a or b, on strings
OrStr(a, b) == IF a # "" THEN a ELSE b

IsTag(tok) == tok \in {"<p>", "</p>", "<br>"}

\* Tags and non-breaking spaces become white space, white space collapses.
clean_html(raw) == SelectSeq(raw, LAMBDA tok : ~IsTag(tok) /\ tok # "&nbsp;")

IdStr(n) ==
    CASE n = 1 -> "1"
      [] n = 2 -> "2"
      [] n = 3 -> "3"
      [] OTHER -> "4"

\* location_name.strip()
StripName(text) ==
    CASE text = " " -> ""
      [] text = " Austin " -> "Austin"
      [] OTHER -> text

\* normalize_job raises AttributeError: location is a dict whose name is
\* null, or the first department's name is null, and .strip() is called on
\* None.
normalize_raises(job) ==
    \/ job.location.isDict /\ "location.name" \in job.nulls
    \/ job.departments # <<>> /\ "departments.name" \in job.nulls

\* normalize_job falling back to the url alone for a posting without id
normalize_job_url_id(company, job) ==
    LET published_at == OrStr(job.first_published, OrStr(job.updated_at, ""))
        job_url == OrStr(job.absolute_url, "")
        job_id == IF job.id # 0 THEN IdStr(job.id) ELSE job_url
        location_name == IF job.location.isDict THEN job.location.name ELSE ""
        department_name == IF job.departments # <<>> THEN job.departments[1].name
                           ELSE ""
    IN [JOB_ID |-> job_id,
        COMPANY |-> company,
        TITLE |-> job.title,
        LOCATION |-> StripName(location_name),
        DEPARTMENT |-> department_name,
        PUBLISHED_AT |-> published_at,
        URL |-> job_url,
        DESCRIPTION |-> clean_html(job.content)]

normalize_job(company, job) ==
    LET published_at == OrStr(job.first_published, OrStr(job.updated_at, ""))
        job_url == OrStr(job.absolute_url, "")
        job_id == IF job.id # 0 THEN IdStr(job.id)
                  ELSE company \o ":" \o job_url \o ":" \o published_at
                       \o ":" \o JoinWords(job.title)
        location_name == IF job.location.isDict THEN job.location.name ELSE ""
        department_name == IF job.departments # <<>> THEN job.departments[1].name
                           ELSE ""
    IN [JOB_ID |-> job_id,
        COMPANY |-> company,
        TITLE |-> job.title,
        LOCATION |-> StripName(location_name),
        DEPARTMENT |-> department_name,
        PUBLISHED_AT |-> published_at,
        URL |-> job_url,
        DESCRIPTION |-> clean_html(job.content)]

\* The response to one company's request: status "ok" carries the postings,
\* anything else is an HTTP error, a timeout or another exception.
fetch_company_jobs(company, resp) ==
    IF resp.status = "ok" THEN [company |-> company, jobs |-> resp.jobs]
    ELSE IF resp.status = "http_error" THEN [company |-> company, jobs |-> <<>>]
    ELSE [company |-> company, jobs |-> <<>>]

RECURSIVE fetch_batches(_, _, _)
fetch_batches(companies, resps, i) ==
    IF i > Len(companies) THEN <<>>
    ELSE LET hi == Min(i + FETCH_BATCH_SIZE - 1, Len(companies))
             batch == [k \in 1..(hi - i + 1) |->
                          fetch_company_jobs(companies[i + k - 1], resps[i + k - 1])]
         IN batch \o fetch_batches(companies, resps, i + FETCH_BATCH_SIZE)

\* fetch_all with fetch_company_jobs catching ClientResponseError only: any
\* other exception leaves gather and the whole fetch is lost.
fetch_all_uncaught(companies, resps) ==
    IF \E i \in 1..Len(companies) : resps[i].status \notin {"ok", "http_error"}
    THEN <<>>
    ELSE fetch_batches(companies, resps, 1)

fetch_all(companies, resps) == fetch_batches(companies, resps, 1)

\* PUBLISHED_AT as the warehouse reads it, in days of the clock
SqlDay(published_at) == parse_iso_dt(published_at).day

InWindow(r, t) == SqlDay(r.PUBLISHED_AT) >= t - INDEX_WINDOW_DAYS

load_recent_keys(tbl, t) ==
    {<<tbl[i].JOB_ID, tbl[i].COMPANY>> : i \in {k \in 1..Len(tbl) : InWindow(tbl[k], t)}}

\* The (company, posting) pairs in the order the two loops of run visit them
RECURSIVE Postings(_)
Postings(results) ==
    IF results = <<>> THEN <<>>
    ELSE LET r == Head(results)
         IN [k \in 1..Len(r.jobs) |-> [company |-> r.company, job |-> r.jobs[k]]]
            \o Postings(Tail(results))

\* The loop of run without existing_keys.add(key)
RECURSIVE stage_rows_no_add(_, _, _, _)
stage_rows_no_add(items, cutoff, existing_keys, rows) ==
    IF items = <<>> THEN [status |-> "ok", rows |-> rows]
    ELSE LET j == Head(items).job
             dt == parse_iso_dt(OrStr(j.first_published, j.updated_at))
         IN IF dt.tz = "none" THEN stage_rows_no_add(Tail(items), cutoff, existing_keys, rows)
            ELSE IF dt.tz = "naive" THEN [status |-> "TypeError", rows |-> <<>>]
            ELSE IF dt.day < cutoff
            THEN stage_rows_no_add(Tail(items), cutoff, existing_keys, rows)
            ELSE IF normalize_raises(j) THEN [status |-> "AttributeError", rows |-> <<>>]
            ELSE LET job == normalize_job(Head(items).company, j)
                     key == <<job.JOB_ID, job.COMPANY>>
                 IN IF key \notin existing_keys
                    THEN stage_rows_no_add(Tail(items), cutoff, existing_keys,
                                           Append(rows, job))
                    ELSE stage_rows_no_add(Tail(items), cutoff, existing_keys, rows)

\* The loop of run over the fetched postings. Comparing a naive datetime
\* with the aware cutoff raises TypeError and normalize_job may raise
\* AttributeError; run catches neither.
RECURSIVE stage_rows(_, _, _, _)
stage_rows(items, cutoff, existing_keys, rows) ==
    IF items = <<>> THEN [status |-> "ok", rows |-> rows]
    ELSE LET j == Head(items).job
             dt == parse_iso_dt(OrStr(j.first_published, j.updated_at))
         IN IF dt.tz = "none" THEN stage_rows(Tail(items), cutoff, existing_keys, rows)
            ELSE IF dt.tz = "naive" THEN [status |-> "TypeError", rows |-> <<>>]
            ELSE IF dt.day < cutoff
            THEN stage_rows(Tail(items), cutoff, existing_keys, rows)
            ELSE IF normalize_raises(j) THEN [status |-> "AttributeError", rows |-> <<>>]
            ELSE LET job == normalize_job(Head(items).company, j)
                     key == <<job.JOB_ID, job.COMPANY>>
                 IN IF key \notin existing_keys
                    THEN stage_rows(Tail(items), cutoff, existing_keys \cup {key},
                                    Append(rows, job))
                    ELSE stage_rows(Tail(items), cutoff, existing_keys, rows)

\* write_pandas appends the staged rows; the annotation columns start NULL.
NewRow(job) ==
    [JOB_ID |-> job.JOB_ID,
     COMPANY |-> job.COMPANY,
     TITLE |-> job.TITLE,
     LOCATION |-> V(job.LOCATION),
     DEPARTMENT |-> job.DEPARTMENT,
     PUBLISHED_AT |-> job.PUBLISHED_AT,
     URL |-> job.URL,
     DESCRIPTION |-> job.DESCRIPTION,
     TITLE_FILTERED |-> NULL,
     IN_USA |-> NULL,
     FIT_SCORE |-> NULL,
     VISA_SPONSOR |-> NULL]

write_pandas(tbl, rows) == tbl \o [i \in 1..Len(rows) |-> NewRow(rows[i])]

\* Greenhouse_Fetch.run(days, companies_override = companies), with resps
\* the upstream's response to each company's request
FetchRun(days, companies, resps) ==
    LET cutoff == now - days
        existing_keys == load_recent_keys(table, now)
        results == fetch_all(companies, resps)
        out == IF companies = <<>> THEN [status |-> "no_companies", rows |-> <<>>]
               ELSE stage_rows(Postings(results), cutoff, existing_keys, <<>>)
    IN /\ Len(table) + Len(out.rows) <= MaxRows
       /\ table' = write_pandas(table, out.rows)
       /\ last' = [op |-> "fetch", status |-> out.status, calls |-> Len(companies),
                   failed |-> {i \in 1..Len(companies) : resps[i].status # "ok"},
                   days |-> days, cutoff |-> cutoff, companies |-> companies,
                   resps |-> resps, results |-> results, rows |-> out.rows]
       /\ now' = now
       /\ UNCHANGED loop

\* A day passes between two runs.
Tick ==
    /\ now < MaxTime
    /\ now' = now + 1
    /\ UNCHANGED <<table, last, loop>>

---------------------------------------------------------------------------
(* The merge statement of the annotation stages *)

\* The indices of the rows of tbl, in table order; a SELECT keeps those that
\* satisfy its WHERE clause.
Indices(tbl) == [i \in 1..Len(tbl) |-> i]

\* ON target.JOB_ID = source.job_id: the source rows that match a target row
Matches(src, row) == {k \in 1..Len(src) : src[k].job_id = row.JOB_ID}

\* A target row that matches more than one source row. The stages set no
\* session parameter, so the warehouse's default applies
\* (ERROR_ON_NONDETERMINISTIC_MERGE = TRUE): the statement fails.
Ambiguous(tbl, src) == \E i \in 1..Len(tbl) : Cardinality(Matches(src, tbl[i])) > 1

\* WHEN MATCHED: the source row a target row is updated from, in a statement
\* that is not Ambiguous
Source(src, row) == src[CHOOSE k \in Matches(src, row) : TRUE]

---------------------------------------------------------------------------
(* Greenhouse_Title_Filtering.py *)

KEYWORDS ==
    {<<"sql">>, <<"python">>, <<"snowflake">>, <<"analyst">>, <<"data", "pipeline">>,
     <<"data", "engineer">>, <<"data", "scientist">>, <<"big", "data">>, <<"etl">>,
     <<"powerbi">>, <<"power", "bi">>, <<"tableau">>, <<"n8n">>, <<"automation">>,
     <<"airflow">>}

TITLE_EXCLUDE ==
    {<<"staff">>, <<"principal">>, <<"architect">>, <<"lead">>, <<"director">>,
     <<"manager">>, <<"intern">>, <<"co-op">>, <<"sre">>, <<"devops">>,
     <<"security">>, <<"platform", "engineer">>, <<"frontend">>,
     <<"front", "end">>, <<"full", "stack">>, <<"ios">>, <<"android">>,
     <<"mobile">>, <<"java">>, <<"cloud">>, <<"writer">>, <<"testing">>,
     <<"sales", "engineer">>, <<"pre-sales">>}

Lower(w) ==
    CASE w = "Data" -> "data"
      [] w = "Analyst" -> "analyst"
      [] w = "Staff" -> "staff"
      [] w = "Engineer" -> "engineer"
      [] w = "SQL" -> "sql"
      [] w = "Python" -> "python"
      [] w = "Cooking" -> "cooking"
      [] OTHER -> w

\* str.contains("|".join(phrases), case=False, regex=True)
Contains(text, phrases) ==
    \E p \in phrases :
        \E i \in 1..(Len(text) - Len(p) + 1) :
            \A k \in 1..Len(p) : Lower(text[i + k - 1]) = p[k]

title_filtered(row) ==
    LET exclude_mask == Contains(row.TITLE, TITLE_EXCLUDE)
        keyword_mask == Contains(row.DESCRIPTION, KEYWORDS)
    IN IF ~exclude_mask /\ keyword_mask THEN "TRUE" ELSE "FALSE"

TitlePending(row, t) == row.TITLE_FILTERED = NULL /\ InWindow(row, t)

SetTitleFiltered(row, s) == [row EXCEPT !.TITLE_FILTERED = V(s.title_filtered)]

\* MERGE ... WHEN MATCHED THEN UPDATE SET target.TITLE_FILTERED
MergeTitleFiltered(tbl, src) ==
    [i \in 1..Len(tbl) |->
        IF Matches(src, tbl[i]) = {} THEN tbl[i]
        ELSE SetTitleFiltered(tbl[i], Source(src, tbl[i]))]

\* Greenhouse_Title_Filtering.run()
TitleRun ==
    LET sel == SelectSeq(Indices(table), LAMBDA i : TitlePending(table[i], now))
        src == [k \in 1..Len(sel) |->
                   [job_id |-> table[sel[k]].JOB_ID,
                    title_filtered |-> title_filtered(table[sel[k]])]]
        done(status) == [op |-> "title", status |-> status, calls |-> 0, failed |-> {},
                         selected |-> sel]
    IN /\ now' = now
       /\ UNCHANGED loop
       /\ IF sel = <<>>
          THEN table' = table /\ last' = done("ok")
          ELSE IF Ambiguous(table, src)
          THEN table' = table /\ last' = done("merge_error")
          ELSE table' = MergeTitleFiltered(table, src) /\ last' = done("ok")

---------------------------------------------------------------------------
(* Greenhouse_Location_Filtering.py *)

\* answer.strip().lower()
StripLower(a) ==
    CASE a = "Yes" -> "yes"
      [] a = " Yes. " -> "yes."
      [] a = "No" -> "no"
      [] a = "Maybe" -> "maybe"
      [] OTHER -> a

StartsWithYes(a) == a \in {"yes", "yes."}

Blank(text) == text \in {"", " "}

\* is_in_usa(location_text), answer being what the model replies when asked
is_in_usa(location_text, answer) ==
    IF Blank(location_text) THEN "No"
    ELSE IF StartsWithYes(StripLower(answer)) THEN "Yes" ELSE "No"

\* The selection of the location stage without the TITLE_FILTERED = 'TRUE' gate
LocationPending_ungated(row, t) ==
    /\ row.IN_USA = NULL
    /\ row.LOCATION # NULL
    /\ InWindow(row, t)

LocationPending(row, t) ==
    /\ row.TITLE_FILTERED = V("TRUE")
    /\ row.IN_USA = NULL
    /\ row.LOCATION # NULL
    /\ InWindow(row, t)

LocationText(row) == CHOOSE x \in row.LOCATION : TRUE

\* The location merge with a SET clause that also writes VISA_SPONSOR
SetInUsa_and_visa(row, s) ==
    [row EXCEPT !.IN_USA = V(s.in_usa), !.VISA_SPONSOR = V(s.in_usa)]

SetInUsa(row, s) == [row EXCEPT !.IN_USA = V(s.in_usa)]

\* MERGE ... WHEN MATCHED THEN UPDATE SET target.IN_USA
MergeInUsa(tbl, src) ==
    [i \in 1..Len(tbl) |->
        IF Matches(src, tbl[i]) = {} THEN tbl[i]
        ELSE SetInUsa(tbl[i], Source(src, tbl[i]))]

LocationAnswers == {"Yes", "No", "Maybe", "RAISE"}

\* The orders in which n concurrent calls can complete: order[p] is the task
\* (by its position among the awaitables) that completes p-th.
Orders(n) == {o \in [1..n -> 1..n] : \A a, b \in 1..n : a # b => o[a] # o[b]}

\* await asyncio.gather(*tasks): the tasks complete in the given order, each
\* with its result, and the list returned holds at position k the result of
\* the k-th awaitable.
gather(order, results) ==
    LET completed == [p \in 1..Len(order) |->
                         [task |-> order[p], result |-> results[order[p]]]]
    IN [k \in 1..Len(results) |->
           completed[CHOOSE p \in 1..Len(order) : completed[p].task = k].result]

\* Greenhouse_Location_Filtering.run(), answers[k] being the reply to the
\* call made for the k-th selected row ("RAISE": the call raises; "": no call)
\* and order the order the tasks complete in
LocationRun(answers, order) ==
    LET sel == SelectSeq(Indices(table), LAMBDA i : LocationPending(table[i], now))
        called == {k \in 1..Len(sel) : ~Blank(LocationText(table[sel[k]]))}
        raised == {k \in called : answers[k] = "RAISE"}
        in_usa == gather(order, [k \in 1..Len(sel) |->
                                    is_in_usa(LocationText(table[sel[k]]), answers[k])])
        src == [k \in 1..Len(sel) |->
                   [job_id |-> table[sel[k]].JOB_ID, in_usa |-> in_usa[k]]]
        done(status, n) == [op |-> "location", status |-> status, calls |-> n,
                            failed |-> {sel[k] : k \in raised},
                            selected |-> sel, answers |-> answers]
    IN /\ now' = now
       /\ UNCHANGED loop
       /\ IF sel = <<>>
          THEN table' = table /\ last' = done("ok", 0)
          ELSE IF raised # {}
          THEN table' = table /\ last' = done("error", Cardinality(called))
          ELSE IF Ambiguous(table, src)
          THEN table' = table /\ last' = done("merge_error", Cardinality(called))
          ELSE table' = MergeInUsa(table, src) /\ last' = done("ok", Cardinality(called))

LocationInputs(tbl, t) ==
    LET sel == SelectSeq(Indices(tbl), LAMBDA i : LocationPending(tbl[i], t))
    IN {a \in [1..Len(sel) -> LocationAnswers \cup {""}] :
           \A k \in 1..Len(sel) : (a[k] = "") <=> Blank(LocationText(tbl[sel[k]]))}

\* The completion orders of the tasks of a run that starts in table tbl at t
LocationOrders(tbl, t) ==
    Orders(Cardinality({i \in 1..Len(tbl) : LocationPending(tbl[i], t)}))

---------------------------------------------------------------------------
(* Greenhouse_Jobs_Matcher.py *)

\* A reply of the scoring model is a sequence of lines; a line is its text
\* before the first colon (head), whether it has a colon (sep) and its text
\* after the first colon (rest).
Line(head, sep, rest) == [head |-> head, sep |-> sep, rest |-> rest]

\* line.lower().startswith("score"), .startswith("visa")
StartsWithScore(line) == line.head \in {"score", "Score", "score 85"}

StartsWithVisa(line) == line.head \in {"visa", "Visa"}

\* .strip()
Strip(text) ==
    CASE text = " 85" -> "85"
      [] text = " 150" -> "150"
      [] text = " 0" -> "0"
      [] text = " high" -> "high"
      [] text = " No" -> "No"
      [] text = " Yes" -> "Yes"
      [] text = " Unknown" -> "Unknown"
      [] OTHER -> text

\* .lower()
LowerText(text) ==
    CASE text = "No" -> "no"
      [] text = "Yes" -> "yes"
      [] text = "Unknown" -> "unknown"
      [] OTHER -> text

\* The strings of decimal digits of the model, and the number each one is
DigitValue == ("0" :> 0) @@ ("85" :> 85) @@ ("100" :> 100) @@ ("150" :> 150)

isdigit(text) == text \in DOMAIN DigitValue

\* The loop over text.splitlines(): line.split(":", 1)[1] raises IndexError
\* on a line without a colon.
RECURSIVE parse_lines(_, _, _)
parse_lines(lines, score, visa) ==
    IF lines = <<>> THEN [raised |-> FALSE, score |-> score, visa |-> visa]
    ELSE LET line == Head(lines)
         IN IF StartsWithScore(line)
            THEN IF line.sep THEN parse_lines(Tail(lines), Strip(line.rest), visa)
                 ELSE [raised |-> TRUE, score |-> score, visa |-> visa]
            ELSE IF StartsWithVisa(line)
            THEN IF line.sep
                 THEN parse_lines(Tail(lines), score, LowerText(Strip(line.rest)))
                 ELSE [raised |-> TRUE, score |-> score, visa |-> visa]
            ELSE parse_lines(Tail(lines), score, visa)

\* analyze_job(job, sem, resume_text), reply being what the scoring model
\* answers: kind "none" is the None of a failed call, kind "raise" an
\* exception that leaves analyze_job.
analyze_job(job_id, reply) ==
    IF reply.api # "ok" THEN [kind |-> "none", score |-> "", visa |-> "", job_id |-> job_id]
    ELSE LET r == parse_lines(reply.lines, "0", "yes")
         IN IF r.raised
            THEN [kind |-> "raise", score |-> "", visa |-> "", job_id |-> job_id]
            ELSE [kind |-> "row",
                  score |-> IF isdigit(r.score) THEN r.score ELSE "0",
                  visa |-> IF r.visa \in {"yes", "no"} THEN r.visa ELSE "yes",
                  job_id |-> job_id]

\* load_jobs without FIT_SCORE IS NULL in its WHERE clause
MatcherPending_rescoring(row) ==
    /\ row.TITLE_FILTERED = V("TRUE")
    /\ row.IN_USA = V("Yes")

MatcherPending(row) ==
    /\ row.TITLE_FILTERED = V("TRUE")
    /\ row.IN_USA = V("Yes")
    /\ row.FIT_SCORE = NULL

\* keep = 'last' of rows that share a job_id
KeepLast(ids) ==
    SelectSeq([k \in 1..Len(ids) |-> k],
              LAMBDA k : ~\E m \in (k + 1)..Len(ids) : ids[m] = ids[k])

\* load_jobs(engine): the indices of the rows loaded, duplicates dropped
load_jobs(tbl) ==
    LET sel == SelectSeq(Indices(tbl), LAMBDA i : MatcherPending(tbl[i]))
        keep == KeepLast([k \in 1..Len(sel) |-> tbl[sel[k]].JOB_ID])
    IN [k \in 1..Len(keep) |-> sel[keep[k]]]

SetFit(row, s) ==
    [row EXCEPT !.FIT_SCORE = V(DigitValue[s.score]), !.VISA_SPONSOR = V(s.visa)]

\* MERGE ... WHEN MATCHED THEN UPDATE SET FIT_SCORE, VISA_SPONSOR
MergeFit(tbl, src) ==
    [i \in 1..Len(tbl) |->
        IF Matches(src, tbl[i]) = {} THEN tbl[i]
        ELSE SetFit(tbl[i], Source(src, tbl[i]))]

\* The order the tasks of the batch jobs[i..hi] complete in, order being the
\* order in which the calls for all the jobs complete
BatchOrder(order, i, hi) ==
    LET inBatch == SelectSeq(order, LAMBDA j : i <= j /\ j <= hi)
    IN [p \in 1..Len(inBatch) |-> inBatch[p] - i + 1]

\* The loop of run over the batches, from the job at position i on: each
\* batch is analyzed, deduplicated and merged before the next one starts.
RECURSIVE run_batches(_, _, _, _, _, _)
run_batches(tbl, jobs, replies, order, i, batch_size) ==
    IF i > Len(jobs) THEN [status |-> "ok", table |-> tbl, calls |-> Len(jobs)]
    ELSE LET hi == Min(i + batch_size - 1, Len(jobs))
             results == gather(BatchOrder(order, i, hi),
                               [k \in 1..(hi - i + 1) |->
                                   analyze_job(tbl[jobs[i + k - 1]].JOB_ID,
                                               replies[i + k - 1])])
             rows == SelectSeq(results, LAMBDA r : r.kind = "row")
             keep == KeepLast([k \in 1..Len(rows) |-> rows[k].job_id])
             unique_rows == [k \in 1..Len(keep) |-> rows[keep[k]]]
             merged == IF rows = <<>> THEN tbl
                       ELSE MergeFit(tbl, unique_rows)
         IN IF \E k \in 1..Len(results) : results[k].kind = "raise"
            THEN [status |-> "parse_error", table |-> tbl, calls |-> hi]
            ELSE run_batches(merged, jobs, replies, order, hi + 1, batch_size)

Reply(lines) == [api |-> "ok", lines |-> lines]

ApiError == [api |-> "error", lines |-> <<>>]

Replies ==
    {Reply(<<Line("score", TRUE, " 85"), Line("visa", TRUE, " No")>>),
     Reply(<<Line("I cannot score this posting.", FALSE, "")>>),
     Reply(<<Line("score 85", FALSE, "")>>),
     Reply(<<Line("Score", TRUE, " 150"), Line("Visa", TRUE, " Yes")>>),
     ApiError}

BatchSizes == {BATCH_SIZE, 1}

\* Greenhouse_Jobs_Matcher.run(batch_size = batch_size), replies[k] being
\* the scoring model's answer for the k-th loaded job and order the order
\* the calls complete in
MatcherRun(replies, batch_size, order) ==
    LET jobs == load_jobs(table)
        out == run_batches(table, jobs, replies, order, 1, batch_size)
    IN /\ now' = now
       /\ UNCHANGED loop
       /\ table' = out.table
       /\ last' = [op |-> "matcher", status |-> out.status, calls |-> out.calls,
                   failed |-> {jobs[k] : k \in {m \in 1..out.calls : replies[m].api # "ok"}},
                   selected |-> jobs, replies |-> replies]

---------------------------------------------------------------------------
(* The external calls of a stage run, as the event loop schedules them *)

\* No stage is running. While one runs: todo calls are left for later gathers,
\* waiting tasks have not made their call yet, outstanding calls are in
\* flight, and unmerged calls were made whose results no merge has committed
\* yet (what an interruption at this point loses).
Idle == [stage |-> "idle", todo |-> 0, waiting |-> 0, outstanding |-> 0,
         unmerged |-> 0]

\* The tasks one asyncio.gather creates out of n calls still to make: a batch
\* of FETCH_BATCH_SIZE companies in fetch_all, a batch of BATCH_SIZE jobs in
\* the scoring stage, every selected row at once in the location stage.
GatherSize(stage, n) ==
    CASE stage = "fetch" -> Min(n, FETCH_BATCH_SIZE)
      [] stage = "location" -> n
      [] stage = "matcher" -> Min(n, BATCH_SIZE)

\* What a task waits for before it makes its call: a free connection of
\* TCPConnector(limit = FETCH_CONCURRENCY) in fetch_company_jobs, the
\* semaphore of CONCURRENCY_LIMIT in analyze_job, nothing in is_in_usa.
MayStart(stage, outstanding) ==
    CASE stage = "fetch" -> outstanding < FETCH_CONCURRENCY
      [] stage = "location" -> TRUE
      [] stage = "matcher" -> outstanding < CONCURRENCY_LIMIT

\* A stage with n external calls to make creates the tasks of its first gather.
BeginCalls(stage, n) ==
    /\ loop.stage = "idle"
    /\ loop' = [stage |-> stage, todo |-> n - GatherSize(stage, n),
                waiting |-> GatherSize(stage, n), outstanding |-> 0,
                unmerged |-> 0]
    /\ UNCHANGED <<now, table, last>>

\* A waiting task makes its external call.
CallStart ==
    /\ loop.waiting > 0
    /\ MayStart(loop.stage, loop.outstanding)
    /\ loop' = [loop EXCEPT !.waiting = @ - 1, !.outstanding = @ + 1,
                            !.unmerged = @ + 1]
    /\ UNCHANGED <<now, table, last>>

\* An outstanding call returns or raises.
CallEnd ==
    /\ loop.outstanding > 0
    /\ loop' = [loop EXCEPT !.outstanding = @ - 1]
    /\ UNCHANGED <<now, table, last>>

\* What the loop of a stage does with the results of a complete gather
\* before it creates the tasks of the next one: the scoring stage merges and
\* commits them, fetch_all only extends its list of results.
MergesBatch(stage) == stage = "matcher"

\* The gather is complete: the loop of the stage goes on to its next batch.
NextBatch ==
    /\ loop.stage # "idle"
    /\ loop.waiting = 0 /\ loop.outstanding = 0
    /\ loop.todo > 0
    /\ loop' = [loop EXCEPT !.todo = @ - GatherSize(loop.stage, loop.todo),
                            !.waiting = GatherSize(loop.stage, loop.todo),
                            !.unmerged = IF MergesBatch(loop.stage) THEN 0 ELSE @]
    /\ UNCHANGED <<now, table, last>>

\* The last gather is complete: the stage is over.
EndCalls ==
    /\ loop.stage # "idle"
    /\ loop.waiting = 0 /\ loop.outstanding = 0 /\ loop.todo = 0
    /\ loop' = Idle
    /\ UNCHANGED <<now, table, last>>

---------------------------------------------------------------------------
(* The upstream: what the job boards may answer *)

Posting(id, first_published, updated_at, title, location_name, content) ==
    [id |-> id,
     first_published |-> first_published,
     updated_at |-> updated_at,
     absolute_url |-> "https://x/" \o IdStr(id),
     title |-> title,
     location |-> [isDict |-> TRUE, name |-> location_name],
     departments |-> <<[name |-> "Data"]>>,
     content |-> content,
     nulls |-> {}]

GoodContent == <<"<p>", "SQL", "&nbsp;", "and", "Python", "</p>">>

Failures == {"http_error", "timeout", "error"}

Failed(kind) == [status |-> kind, jobs |-> <<>>]

Ok(jobs) == [status |-> "ok", jobs |-> jobs]

CompaniesFile == <<"acme", "beta">>

Lookbacks == {DEFAULT_LOOKBACK_DAYS, 3}

\* Timestamp pairs (first_published, updated_at) of a posting at time t
TsPairs(t) ==
    {<<IsoZ(d), "">> : d \in {e \in 0..MaxTime : t - 3 <= e /\ e <= t}}
    \cup {<<"", IsoZ(t)>>, <<"yesterday", IsoZ(t)>>, <<"", "">>, <<IsoNaive(t), "">>}

InsertJobs(t) ==
    {Posting(1, p[1], p[2], <<"Data", "Analyst">>, "Austin", GoodContent) : p \in TsPairs(t)}

InsertResps(t) ==
    {<<Failed("error")>>,
     <<Ok(<<Posting(1, IsoZ(t), "", <<"Data", "Analyst">>, "Austin", GoodContent)>>)>>}
    \cup
    {<<a, b>> :
        a \in {Failed("http_error"), Ok(<<>>)} \cup {Ok(<<j>>) : j \in InsertJobs(t)},
        b \in {Failed("timeout"),
               Ok(<<Posting(1, IsoZ(t), "", <<"Data", "Analyst">>, "Austin", GoodContent)>>)}}

\* The postings the boards of the two companies list at time t: the same
\* native id on both boards, with different titles and locations
AcmeJobs(t) ==
    {<<>>,
     <<Posting(1, IsoZ(t), "", <<"Data", "Analyst">>, "Austin", GoodContent)>>,
     <<Posting(2, "", IsoZ(t), <<"Data", "Engineer">>, "Remote", GoodContent)>>,
     <<Posting(2, "", IsoZ(t), <<"Data", "Engineer">>, "", GoodContent)>>,
     <<Posting(1, IsoZ(t), "", <<"Data", "Analyst">>, "Austin", GoodContent),
       Posting(2, "", IsoZ(t), <<"Data", "Engineer">>, "Remote", GoodContent)>>}

BetaJobs(t) ==
    {<<Posting(1, IsoZ(t), "", <<"Staff", "Engineer">>, "Paris", GoodContent)>>}

PipelineResps(t) ==
    {<<a, b>> :
        a \in {Failed("http_error")} \cup {Ok(js) : js \in AcmeJobs(t)},
        b \in {Failed("timeout")} \cup {Ok(js) : js \in BetaJobs(t)}}

---------------------------------------------------------------------------
Init ==
    /\ now = 0
    /\ table = <<>>
    /\ last = [op |-> "none", status |-> "ok", calls |-> 0, failed |-> {}]
    /\ loop = Idle

\* One invocation after the other within the day: the stages of job.main,
\* each of which can also be run on its own
Next ==
    \/ \E resps \in PipelineResps(now) :
          FetchRun(DEFAULT_LOOKBACK_DAYS, CompaniesFile, resps)
    \/ TitleRun
    \/ \E answers \in LocationInputs(table, now), order \in LocationOrders(table, now) :
          LocationRun(answers, order)
    \/ \E replies \in [1..Len(load_jobs(table)) -> Replies], batch_size \in BatchSizes,
          order \in Orders(Len(load_jobs(table))) :
          MatcherRun(replies, batch_size, order)

Spec == Init /\ [][Next]_vars

NextInsert ==
    \/ \E days \in Lookbacks, resps \in InsertResps(now) :
          FetchRun(days, SubSeq(CompaniesFile, 1, Len(resps)), resps)
    \/ Tick

SpecInsert == Init /\ [][NextInsert]_vars

\* The lists of companies run may be given, and the answers of their boards
CompanyLists ==
    {<<>>} \cup {<<c>> : c \in {"acme", "beta"}}
    \cup {<<c, d>> : c \in {"acme", "beta"}, d \in {"acme", "beta"}}

FetchAnswers(t) ==
    {Failed(k) : k \in Failures}
    \cup {Ok(<<>>),
          Ok(<<Posting(1, IsoZ(t), "", <<"Data", "Analyst">>, "Austin", GoodContent)>>),
          Ok(<<Posting(1, IsoZ(t), "", <<"Data", "Analyst">>, "Austin", GoodContent),
               Posting(2, "", IsoZ(t), <<"Data", "Engineer">>, "Remote", GoodContent)>>)}

NextFetch ==
    \E companies \in CompanyLists :
        \E resps \in [1..Len(companies) -> FetchAnswers(now)] :
            FetchRun(DEFAULT_LOOKBACK_DAYS, companies, resps)

SpecFetch == Init /\ [][NextFetch]_vars

\* Boards that list a posting twice, and a company that is listed twice
DedupAnswers(t) ==
    {Ok(<<Posting(1, IsoZ(t), "", <<"Data", "Analyst">>, "Austin", GoodContent)>>),
     Ok(<<Posting(2, "", IsoZ(t), <<"Data", "Engineer">>, "Remote", GoodContent)>>),
     Ok(<<Posting(1, IsoZ(t), "", <<"Senior", "Analyst">>, "Austin", GoodContent),
          Posting(1, IsoZ(t), "", <<"Data", "Analyst">>, "Austin", GoodContent)>>)}

NextDedup ==
    \E companies \in {<<"acme">>, <<"acme", "acme">>, <<"acme", "beta">>} :
        \E resps \in [1..Len(companies) -> DedupAnswers(now)] :
            FetchRun(DEFAULT_LOOKBACK_DAYS, companies, resps)

SpecDedup == Init /\ [][NextDedup]_vars

\* Raw posting records with fields missing, null or blank: id 0 is a
\* posting without native id, an empty title, url or content an absent one.
RawBase(id) == Posting(id, IsoZ(0), "", <<"Engineer">>, "Austin", GoodContent)

RawPostings ==
    {RawBase(1),
     [RawBase(0) EXCEPT !.absolute_url = "https://x/y"],
     [RawBase(0) EXCEPT !.absolute_url = "", !.title = <<>>,
                        !.first_published = "", !.updated_at = IsoZ(0)],
     [RawBase(2) EXCEPT !.location = [isDict |-> FALSE, name |-> ""],
                        !.departments = <<>>, !.content = <<>>, !.title = <<>>],
     [RawBase(2) EXCEPT !.location = [isDict |-> TRUE, name |-> " "]],
     [RawBase(3) EXCEPT !.nulls = {"location.name"}],
     [RawBase(3) EXCEPT !.nulls = {"departments.name"}]}

\* Runs of the insert stage on one company whose board lists one raw posting
NextNormalize ==
    \E company \in {"acme", "beta"}, job \in RawPostings :
        FetchRun(DEFAULT_LOOKBACK_DAYS, <<company>>, <<Ok(<<job>>)>>)

SpecNormalize == Init /\ [][NextNormalize]_vars

\* The external calls of one stage run after the other, whatever the number
\* of companies or selected rows
NextCalls ==
    \/ \E stage \in {"fetch", "location", "matcher"}, n \in 1..MaxCalls :
          BeginCalls(stage, n)
    \/ CallStart
    \/ CallEnd
    \/ NextBatch
    \/ EndCalls

SpecCalls == Init /\ [][NextCalls]_vars

\* What the boards answer on day t when only acme's board is reachable
RetryResps(t) ==
    {<<a, Failed("timeout")>> :
        a \in {Failed("http_error")} \cup
              {Ok(<<js[1]>>) : js \in AcmeJobs(t) \ {<<>>}}}

\* The scheduled invocations of the stages, day after day
NextRetry ==
    \/ \E resps \in RetryResps(now) :
          FetchRun(DEFAULT_LOOKBACK_DAYS, CompaniesFile, resps)
    \/ TitleRun
    \/ \E answers \in LocationInputs(table, now), order \in LocationOrders(table, now) :
          LocationRun(answers, order)
    \/ \E replies \in [1..Len(load_jobs(table)) -> Replies], batch_size \in BatchSizes,
          order \in Orders(Len(load_jobs(table))) :
          MatcherRun(replies, batch_size, order)
    \/ Tick

SpecRetry == Init /\ [][NextRetry]_vars

\* Whether the stage of run ended by raising instead of returning
Raised(run) == run.status \notin {"ok", "no_companies"}

\* A main that wraps each stage call in a try/except and goes on to the next
MainCalls_resilient(run) ==
    CASE run.op = "fetch" -> "title"
      [] run.op = "title" -> "location"
      [] run.op = "location" -> "matcher"
      [] OTHER -> "fetch"

\* job.main() calls the four stages one after the other and catches nothing;
\* it is sequential, so the stage it calls next is determined by the stage
\* that ended last and by how it ended. An exception leaves main, and so
\* does the return of the scoring stage: the next call is then the fetch of
\* the scheduler's next invocation.
MainCalls(run) ==
    IF Raised(run) THEN "fetch"
    ELSE CASE run.op = "fetch" -> "title"
           [] run.op = "title" -> "location"
           [] run.op = "location" -> "matcher"
           [] OTHER -> "fetch"

\* What the boards answer an invocation of main at time t: the answers of the
\* pipeline, or a posting of acme whose timestamp carries no offset
MainResps(t) ==
    PipelineResps(t) \cup
    {<<Ok(<<Posting(1, IsoNaive(t), "", <<"Data", "Analyst">>, "Austin", GoodContent)>>),
       Failed("timeout")>>}

\* The invocations of job.main, one after the other within the day
NextMain ==
    \/ /\ MainCalls(last) = "fetch"
       /\ \E resps \in MainResps(now) :
             FetchRun(DEFAULT_LOOKBACK_DAYS, CompaniesFile, resps)
    \/ /\ MainCalls(last) = "title"
       /\ TitleRun
    \/ /\ MainCalls(last) = "location"
       /\ \E answers \in LocationInputs(table, now), order \in LocationOrders(table, now) :
             LocationRun(answers, order)
    \/ /\ MainCalls(last) = "matcher"
       /\ \E replies \in [1..Len(load_jobs(table)) -> Replies],
             order \in Orders(Len(load_jobs(table))) :
             MatcherRun(replies, BATCH_SIZE, order)

SpecMain == Init /\ [][NextMain]_vars

---------------------------------------------------------------------------
(* Properties *)

Key(row) == <<row.JOB_ID, row.COMPANY>>

Rows == 1..Len(table)

\* A step of the annotation stage op: the clock stands still and no row is
\* appended.
StageStep(op) == now' = now /\ last'.op = op /\ Len(table') = Len(table)

\* The rows the stage op selects in the state it starts in
Selected(op) ==
    CASE op = "title" -> {i \in Rows : TitlePending(table[i], now)}
      [] op = "location" -> {i \in Rows : LocationPending(table[i], now)}
      [] op = "matcher" -> {load_jobs(table)[k] : k \in 1..Len(load_jobs(table))}

\* The rows the stage op is responsible for, annotated or not
Targets(op) ==
    CASE op = "title" -> {i \in Rows : InWindow(table[i], now)}
      [] op = "location" ->
            {i \in Rows : /\ table[i].TITLE_FILTERED = V("TRUE")
                          /\ table[i].LOCATION # NULL
                          /\ InWindow(table[i], now)}
      [] op = "matcher" ->
            {i \in Rows : /\ table[i].TITLE_FILTERED = V("TRUE")
                          /\ table[i].IN_USA = V("Yes")}

Output(op, row) ==
    CASE op = "title" -> row.TITLE_FILTERED
      [] op = "location" -> row.IN_USA
      [] op = "matcher" -> row.FIT_SCORE

Stages == {"title", "location", "matcher"}

\* C1: the table never holds two rows with the same identity key
\* (JOB_ID, COMPANY), whatever the boards answer and however much time
\* passes between the runs of the insert stage.
C1_UniqueIdentity ==
    \A i, j \in Rows : i # j => Key(table[i]) # Key(table[j])

\* C2: a run of the insert stage that directly follows a run with the same
\* lookback (hence the same cutoff), the same companies and the same upstream
\* answers appends no row.
C2_IdempotentInsert ==
    [][(/\ last.op = "fetch"
        /\ last'.op = "fetch"
        /\ last'.days = last.days
        /\ last'.companies = last.companies
        /\ last'.resps = last.resps
        /\ last'.cutoff = last.cutoff) => table' = table]_vars

\* C3: in every state and for every row, IN_USA is non-null only if
\* TITLE_FILTERED is 'TRUE', and FIT_SCORE and VISA_SPONSOR are non-null
\* only if TITLE_FILTERED is 'TRUE' and IN_USA is 'Yes'.
C3_Gating ==
    \A i \in Rows :
        /\ table[i].IN_USA # NULL => table[i].TITLE_FILTERED = V("TRUE")
        /\ (table[i].FIT_SCORE # NULL \/ table[i].VISA_SPONSOR # NULL)
              => (table[i].TITLE_FILTERED = V("TRUE") /\ table[i].IN_USA = V("Yes"))

\* C4: the merge of an annotation stage changes only rows whose identity key
\* (JOB_ID, COMPANY) is the key of a row the stage selected; every other row
\* is left as it was.
C4_MergeKeyedByIdentity ==
    [][\A op \in Stages :
          StageStep(op) =>
              \A i \in Rows :
                  table'[i] # table[i]
                      => Key(table[i]) \in {Key(table[k]) : k \in Selected(op)}]_vars

\* C5: the merge of the title stage changes only TITLE_FILTERED, the merge
\* of the location stage only IN_USA, the merge of the scoring stage only
\* FIT_SCORE and VISA_SPONSOR, also on rows whose other annotation columns
\* are still null.
C5_MergeIsolation ==
    [][\A i \in Rows :
          /\ StageStep("title")
                => table'[i] = [table[i] EXCEPT
                                   !.TITLE_FILTERED = table'[i].TITLE_FILTERED]
          /\ StageStep("location")
                => table'[i] = [table[i] EXCEPT !.IN_USA = table'[i].IN_USA]
          /\ StageStep("matcher")
                => table'[i] = [table[i] EXCEPT
                                   !.FIT_SCORE = table'[i].FIT_SCORE,
                                   !.VISA_SPONSOR = table'[i].VISA_SPONSOR]]_vars

\* C5 witness: the location stage has merged IN_USA into a row whose scoring
\* columns are null.
C5_Witness ==
    /\ last.op = "location"
    /\ last.status = "ok"
    /\ \E i \in Rows :
          /\ table[i].IN_USA # NULL
          /\ table[i].FIT_SCORE = NULL
          /\ table[i].VISA_SPONSOR = NULL

\* C6: once an annotation column of a row is non-null, no step changes it.
C6_Monotonic ==
    [][\A i \in Rows :
          /\ table[i].TITLE_FILTERED # NULL
                => table'[i].TITLE_FILTERED = table[i].TITLE_FILTERED
          /\ table[i].IN_USA # NULL => table'[i].IN_USA = table[i].IN_USA
          /\ table[i].FIT_SCORE # NULL => table'[i].FIT_SCORE = table[i].FIT_SCORE
          /\ table[i].VISA_SPONSOR # NULL
                => table'[i].VISA_SPONSOR = table[i].VISA_SPONSOR]_vars

\* C7: a run of an annotation stage that starts when every row the stage
\* targets has its output column filled updates no row and makes no
\* external call.
C7_AnnotationIdempotence ==
    [][\A op \in Stages :
          (/\ StageStep(op)
           /\ \A i \in Targets(op) : Output(op, table[i]) # NULL)
              => (table' = table /\ last'.calls = 0)]_vars

\* C7 witness: the scoring stage has run on a table whose target rows are
\* all scored, and has made no call.
C7_Witness ==
    /\ last.op = "matcher"
    /\ last.calls = 0
    /\ Targets("matcher") # {}
    /\ \A i \in Targets("matcher") : table[i].FIT_SCORE # NULL

\* C8: when the external call fails for one row of a batch of the location
\* or the scoring stage and not for another, the stage does not abort, the
\* failed row's output column stays null and the other selected rows of the
\* run get their result.
C8_FailureIsolated ==
    [][\A op \in {"location", "matcher"} :
          (StageStep(op) /\ last'.failed # {} /\ Selected(op) \ last'.failed # {})
              => /\ last'.status # "error"
                 /\ \A i \in last'.failed : Output(op, table'[i]) = NULL
                 /\ \A i \in Selected(op) \ last'.failed :
                       last'.status = "ok" => Output(op, table'[i]) # NULL]_vars

\* C9: fetch_all returns one (company, postings) pair per company, in order;
\* a company whose request fails gets the empty list and every other company
\* gets exactly the postings its board answered.
C9_FetchIsolation ==
    last.op = "fetch" =>
        /\ Len(last.results) = Len(last.companies)
        /\ \A i \in 1..Len(last.companies) :
              /\ last.results[i].company = last.companies[i]
              /\ last.results[i].jobs =
                    IF last.resps[i].status = "ok" THEN last.resps[i].jobs ELSE <<>>

\* C9 witness: one company's request failed and the other company's postings
\* were returned.
C9_Witness ==
    /\ last.op = "fetch"
    /\ \E i, j \in 1..Len(last.companies) :
          /\ last.resps[i].status # "ok"
          /\ last.resps[j].status = "ok"
          /\ last.results[j].jobs # <<>>

\* The best-known timestamp of a posting: first-published, else last-updated
BestKnown(job) == parse_iso_dt(OrStr(job.first_published, job.updated_at))

Staged(company, job) ==
    \E k \in 1..Len(last.rows) : last.rows[k] = normalize_job(company, job)

\* C10: in a run of the insert stage a posting whose best-known timestamp
\* equals the cutoff is kept (its key is in the table afterwards), one that
\* is older than the cutoff is discarded, and one whose timestamp is absent
\* or not usable as a timestamp is discarded without failing the run.
C10_CutoffCorrect ==
    (last.op = "fetch" /\ last.companies # <<>>) =>
        \A i \in 1..Len(last.results) :
            \A k \in 1..Len(last.results[i].jobs) :
                LET job == last.results[i].jobs[k]
                    company == last.results[i].company
                    dt == BestKnown(job)
                IN IF dt.tz = "aware" /\ dt.day = last.cutoff
                   THEN \E r \in Rows : Key(table[r]) = Key(normalize_job(company, job))
                   ELSE IF dt.tz = "aware" /\ dt.day < last.cutoff
                   THEN ~Staged(company, job)
                   ELSE IF dt.tz # "aware"
                   THEN ~Staged(company, job) /\ last.status = "ok"
                   ELSE TRUE

\* A reply of the scoring model that carries neither a score line nor a
\* visa line
NoFields(reply) ==
    /\ reply.api = "ok"
    /\ \A k \in 1..Len(reply.lines) :
          ~StartsWithScore(reply.lines[k]) /\ ~StartsWithVisa(reply.lines[k])

\* C11: in a run of the scoring stage that completes, a selected row whose
\* reply has no score line and no visa line gets the defaults: FIT_SCORE 0
\* and VISA_SPONSOR 'Yes'.
C11_SafeDefault ==
    [][(StageStep("matcher") /\ last'.status = "ok") =>
          \A k \in 1..Len(last'.selected) :
              NoFields(last'.replies[k])
                  => /\ table'[last'.selected[k]].FIT_SCORE = V(0)
                     /\ table'[last'.selected[k]].VISA_SPONSOR = V("Yes")]_vars

\* C12: whatever text the scoring model returns, parsing does not raise: the
\* stage is not aborted and every selected row whose call returned a text
\* gets a result.
C12_ParsingNeverRaises ==
    [][StageStep("matcher") =>
          /\ last'.status # "parse_error"
          /\ \A k \in 1..Len(last'.selected) :
                last'.replies[k].api = "ok"
                    => table'[last'.selected[k]].FIT_SCORE # NULL]_vars

\* C16: every non-null FIT_SCORE of the table is an integer from 0 to 100.
C16_ScoreRange ==
    \A i \in Rows : \A x \in table[i].FIT_SCORE : x \in 0..100

\* C13: the rows a stage selects have its output column null and its gating
\* columns at the qualifying values: the title stage selects rows with
\* TITLE_FILTERED null, the location stage rows with TITLE_FILTERED 'TRUE'
\* and IN_USA null, the scoring stage rows with TITLE_FILTERED 'TRUE',
\* IN_USA 'Yes' and FIT_SCORE null.
C13_GatedSelection ==
    [][\A op \in Stages :
          StageStep(op) =>
              \A k \in 1..Len(last'.selected) :
                  LET row == table[last'.selected[k]]
                  IN CASE op = "title" -> row.TITLE_FILTERED = NULL
                       [] op = "location" ->
                             row.TITLE_FILTERED = V("TRUE") /\ row.IN_USA = NULL
                       [] op = "matcher" ->
                             /\ row.TITLE_FILTERED = V("TRUE")
                             /\ row.IN_USA = V("Yes")
                             /\ row.FIT_SCORE = NULL]_vars

\* C13 witness: the location stage has selected a row and has left aside a
\* row with TITLE_FILTERED 'FALSE' whose IN_USA is null.
C13_Witness ==
    /\ last.op = "location"
    /\ last.selected # <<>>
    /\ \E i \in Rows :
          /\ table[i].TITLE_FILTERED = V("FALSE")
          /\ table[i].IN_USA = NULL
          /\ \A k \in 1..Len(last.selected) : last.selected[k] # i

\* C17: in a run of the location stage that completes, a selected row with a
\* non-blank location whose answer is neither Yes nor No is recorded with
\* the permissive label 'Yes'.
C17_PermissiveDefault ==
    [][(StageStep("location") /\ last'.status = "ok") =>
          \A k \in 1..Len(last'.selected) :
              last'.answers[k] \notin {"", "Yes", "No"}
                  => table'[last'.selected[k]].IN_USA = V("Yes")]_vars

\* The one posting of a run on one company whose board lists one posting
OnePosting == last.results[1].jobs[1]

OneRun ==
    /\ last.op = "fetch"
    /\ Len(last.results) = 1
    /\ Len(last.results[1].jobs) = 1

\* C14: normalize_job does not raise, whatever fields of the raw posting are
\* missing, null or blank, and the row it returns has the empty string for
\* an absent location, department, url or title.
C14_NormalizerCannotFail ==
    OneRun =>
        /\ last.status # "AttributeError"
        /\ \A k \in 1..Len(last.rows) :
              /\ (~OnePosting.location.isDict \/ "location.name" \in OnePosting.nulls)
                    => last.rows[k].LOCATION = ""
              /\ (OnePosting.departments = <<>> \/ "departments.name" \in OnePosting.nulls)
                    => last.rows[k].DEPARTMENT = ""
              /\ OnePosting.absolute_url = "" => last.rows[k].URL = ""
              /\ OnePosting.title = <<>> => last.rows[k].TITLE = <<>>

\* C15: the row staged for a posting has a non-empty JOB_ID: the native id
\* when the posting has one, else partition:url:published-timestamp:title;
\* the posting without id of partition acme at https://x/y, published
\* 2024-01-01T00:00:00Z and titled Engineer gets
\* acme:https://x/y:2024-01-01T00:00:00Z:Engineer.
C15_IdentityDerivable ==
    (OneRun /\ last.status = "ok") =>
        \A k \in 1..Len(last.rows) :
            LET row == last.rows[k]
                job == OnePosting
            IN /\ row.JOB_ID # ""
               /\ job.id # 0 => row.JOB_ID = IdStr(job.id)
               /\ job.id = 0 =>
                     row.JOB_ID = last.companies[1] \o ":" \o job.absolute_url \o ":"
                                  \o OrStr(job.first_published, job.updated_at)
                                  \o ":" \o JoinWords(job.title)
               /\ (/\ job.id = 0
                   /\ last.companies[1] = "acme"
                   /\ job.absolute_url = "https://x/y"
                   /\ job.first_published = "2024-01-01T00:00:00Z"
                   /\ job.title = <<"Engineer">>)
                     => row.JOB_ID = "acme:https://x/y:2024-01-01T00:00:00Z:Engineer"

\* C15 witness: the posting of the scenario has been staged.
C15_Witness ==
    /\ OneRun
    /\ OnePosting.id = 0
    /\ last.companies = <<"acme">>
    /\ OnePosting.absolute_url = "https://x/y"
    /\ Len(last.rows) = 1
    /\ \E i \in Rows : table[i].JOB_ID = last.rows[1].JOB_ID

\* C18: in a run of the insert stage, whatever its lookback, the window of
\* load_recent_keys covers the cutoff window: every row of the table
\* published at or after the run's cutoff has its key in the set
\* load_recent_keys loads.
C18_IndexCoversCutoff ==
    [][(now' = now /\ last'.op = "fetch") =>
          \A i \in Rows :
              SqlDay(table[i].PUBLISHED_AT) >= last'.cutoff
                  => Key(table[i]) \in load_recent_keys(table, now)]_vars

\* The postings of the run just made that pass its cutoff filter and
\* normalize to key, as positions in visiting order
Occurrences(run, key) ==
    LET items == Postings(run.results)
    IN {m \in 1..Len(items) :
           /\ BestKnown(items[m].job).tz = "aware"
           /\ BestKnown(items[m].job).day >= run.cutoff
           /\ Key(normalize_job(items[m].company, items[m].job)) = key}

\* C19: the rows a run of the insert stage hands to the bulk append have
\* pairwise distinct keys, none of them is in the pre-loaded key set, and
\* each is the row of the first occurrence of its key in the fetch results.
C19_InRunDedup ==
    [][(now' = now /\ last'.op = "fetch" /\ last'.status = "ok") =>
          /\ \A a, b \in 1..Len(last'.rows) :
                a # b => Key(last'.rows[a]) # Key(last'.rows[b])
          /\ \A a \in 1..Len(last'.rows) :
                LET occ == Occurrences(last', Key(last'.rows[a]))
                    items == Postings(last'.results)
                    first == CHOOSE m \in occ : \A n \in occ : m <= n
                IN /\ Key(last'.rows[a]) \notin load_recent_keys(table, now)
                   /\ occ # {}
                   /\ last'.rows[a] = normalize_job(items[first].company, items[first].job)]_vars

\* C19 witness: a key occurred twice in the fetch results of a run, with
\* different postings, and one row was staged for it.
C19_Witness ==
    /\ last.op = "fetch"
    /\ \E a \in 1..Len(last.rows) :
          LET occ == Occurrences(last, Key(last.rows[a]))
              items == Postings(last.results)
          IN \E m, n \in occ : items[m].job # items[n].job

\* The concurrency ceiling of a stage: FETCH_CONCURRENCY for the fetch, the
\* annotation ceiling CONCURRENCY_LIMIT for the location and scoring stages
Ceiling(stage) ==
    CASE stage = "fetch" -> FETCH_CONCURRENCY
      [] stage = "location" -> CONCURRENCY_LIMIT
      [] stage = "matcher" -> CONCURRENCY_LIMIT

\* C20: while a stage runs, the number of its outstanding external calls
\* never exceeds the stage's concurrency ceiling.
C20_BoundedConcurrency ==
    loop.stage # "idle" => loop.outstanding <= Ceiling(loop.stage)

\* C21: an annotation stage that calls an external capability works in
\* batches of the annotation batch size, and merges and commits the results
\* of a batch before it issues any call of the next one: at no time do more
\* than BATCH_SIZE issued calls have results that are not yet committed, so
\* an interruption loses the results of the running batch at most.
C21_BatchThenMerge ==
    loop.stage \in {"location", "matcher"} => loop.unmerged <= BATCH_SIZE

\* The rows the run recorded in run selected
SelectedBy(run) == {run.selected[k] : k \in 1..Len(run.selected)}

\* C22: a row left out of a stage's output because its external call failed
\* is still pending, and the next invocation of that stage, however much
\* later it is scheduled, selects it again as long as it is not annotated.
C22_RetryUntilAnnotated ==
    [][\A op \in {"location", "matcher"} : \A i \in Rows :
          (/\ last.op = op /\ i \in last.failed
           /\ Output(op, table[i]) = NULL
           /\ last'.op = op /\ Len(table') = Len(table))
          => i \in SelectedBy(last')]_vars

\* The position of row i among the rows the run recorded in run selected
PositionIn(run, i) == CHOOSE k \in 1..Len(run.selected) : run.selected[k] = i

\* C23: whatever order the concurrent calls of a stage run complete in, a
\* value the run merges into a row is the one computed from that row's own
\* input and the answer to the call made for that row; no row receives a
\* value computed for another row.
C23_ResultPairing ==
    [][\A i \in Rows :
          /\ (StageStep("location") /\ table'[i].IN_USA # table[i].IN_USA)
                => /\ i \in SelectedBy(last')
                   /\ table'[i].IN_USA =
                         V(is_in_usa(LocationText(table[i]),
                                     last'.answers[PositionIn(last', i)]))
          /\ (StageStep("matcher") /\ table'[i].FIT_SCORE # table[i].FIT_SCORE)
                => /\ i \in SelectedBy(last')
                   /\ LET r == analyze_job(table[i].JOB_ID,
                                           last'.replies[PositionIn(last', i)])
                      IN r.kind = "row" /\ table'[i] = SetFit(table[i], r)]_vars

\* C24: within an invocation of job.main the stages run in the order insert,
\* title filter, location classification, fit scoring, each one only once the
\* one before it has returned; after a stage that raised no later stage runs
\* (the exception leaves main), and the insert stage runs only at the start
\* of an invocation, that is after the scoring stage ended or a stage raised.
C24_StageOrder ==
    [][/\ last'.op = "title" => (last.op = "fetch" /\ ~Raised(last))
       /\ last'.op = "location" => (last.op = "title" /\ ~Raised(last))
       /\ last'.op = "matcher" => (last.op = "location" /\ ~Raised(last))
       /\ last'.op = "fetch" =>
             (last.op \in {"none", "matcher"} \/ Raised(last))]_vars

\* The location stage raised in the middle of an invocation that had
\* inserted and title-filtered rows
C24_Witness ==
    /\ last.op = "location"
    /\ Raised(last)
    /\ \E i \in Rows : table[i].TITLE_FILTERED = V("TRUE") /\ table[i].IN_USA = NULL

=============================================================================
